---- MODULE Spec2Model ----
(***************************************************************************)
(* Model of http-cache-hyper: HyperMiddleware, the hyper binding of the    *)
(* http-cache Middleware trait (src/http-cache-hyper/src/lib.rs).          *)
(*                                                                         *)
(* The adapter owns one live request (`req`) and borrows a client.  The    *)
(* synchronous trait methods are one action each; the asynchronous         *)
(* remote_fetch is split at its two await points (client.request and       *)
(* hyper::body::to_bytes), whose outcomes the transport chooses.           *)
(*                                                                         *)
(* Text is modelled down to the level the code can observe:                *)
(*   - a method token and a host are sequences of one-character strings,   *)
(*     so that case (GET vs get) is visible;                               *)
(*   - a header value and a body are sequences of bytes (0..255), so that  *)
(*     HeaderValue::to_str can fail;                                       *)
(*   - a header name is its canonical (lower-case) form, which is what     *)
(*     http::HeaderName stores.                                            *)
(***************************************************************************)
EXTENDS Integers, Sequences, FiniteSets, TLC

VARIABLES req, pc, frame, sent, net, ret

vars == <<req, pc, frame, sent, net, ret>>

-----------------------------------------------------------------------------
(* Bounds of the model *)

\* largest number of header values on the live request at construction
MaxHdr == 3
\* largest number of header values handed to update_headers
MaxUpd == 2
\* largest number of header values on a transport response
MaxResHdr == 2

-----------------------------------------------------------------------------
(* Characters and bytes *)

CasePairs ==
    << <<"a", "A">>, <<"d", "D">>, <<"e", "E">>, <<"g", "G">>, <<"h", "H">>,
       <<"o", "O">>, <<"p", "P">>, <<"s", "S">>, <<"t", "T">> >>

IsLowerChar(c) == \E i \in 1..Len(CasePairs) : CasePairs[i][1] = c

IsUpperChar(c) == \E i \in 1..Len(CasePairs) : CasePairs[i][2] = c

ToLowerChar(c) ==
    IF IsUpperChar(c)
    THEN CasePairs[CHOOSE i \in 1..Len(CasePairs) : CasePairs[i][2] = c][1]
    ELSE c

ToUpperChar(c) ==
    IF IsLowerChar(c)
    THEN CasePairs[CHOOSE i \in 1..Len(CasePairs) : CasePairs[i][1] = c][2]
    ELSE c

ToLower(s) == [i \in 1..Len(s) |-> ToLowerChar(s[i])]

ToUpper(s) == [i \in 1..Len(s) |-> ToUpperChar(s[i])]

\* finite sequences over S of length at most n
SeqUpTo(S, n) == UNION {[1..k -> S] : k \in 0..n}

-----------------------------------------------------------------------------
(* http::Method *)

GET == <<"G", "E", "T">>

HEAD == <<"H", "E", "A", "D">>

POST == <<"P", "O", "S", "T">>

\* extension methods: http::Method keeps any token as written, case included
ExtLower == <<"g", "e", "t">>

ExtMixed == <<"H", "e", "a", "d">>

Methods == {GET, HEAD, POST, ExtLower, ExtMixed}

-----------------------------------------------------------------------------
(* http::HeaderMap: an ordered list of buckets, one per name, each holding *)
(* the values of that name in the order they were added.                   *)

CACHE_CONTROL == "cache-control"

ACCEPT == "accept"

X_A == "x-a"

CONTENT_TYPE == "content-type"

X_B == "x-b"

\* "1"
V1 == <<49>>

\* "2"
V2 == <<50>>

\* "no-cache"
NoCacheBytes == <<110, 111, 45, 99, 97, 99, 104, 101>>

\* "t/p", standing for text/plain
TextPlain == <<116, 47, 112>>

\* a header value that is legal on the wire (obs-text) but is not text
Opaque == <<255>>

\* a string holding a line feed: not a legal header value
LineFeed == <<10>>

HasName(m, n) == \E i \in 1..Len(m) : m[i].name = n

IndexOf(m, n) == CHOOSE i \in 1..Len(m) : m[i].name = n

\* HeaderMap::append: keeps the values the name already has
HeaderAppend(m, n, v) ==
    IF HasName(m, n)
    THEN [m EXCEPT ![IndexOf(m, n)].values = Append(@, v)]
    ELSE Append(m, [name |-> n, values |-> <<v>>])

\* HeaderMap::insert: the name is left with this one value
HeaderInsert(m, n, v) ==
    IF HasName(m, n)
    THEN [m EXCEPT ![IndexOf(m, n)].values = <<v>>]
    ELSE Append(m, [name |-> n, values |-> <<v>>])

RECURSIVE HeaderIter(_)
\* HeaderMap::iter: every (name, value), bucket by bucket
HeaderIter(m) ==
    IF m = <<>>
    THEN <<>>
    ELSE [i \in 1..Len(m[1].values) |-> <<m[1].name, m[1].values[i]>>]
         \o HeaderIter(Tail(m))

RECURSIVE AppendAll(_, _)
\* for header in items { dst.append(header.0, header.1) }
AppendAll(dst, items) ==
    IF items = <<>>
    THEN dst
    ELSE AppendAll(HeaderAppend(dst, items[1][1], items[1][2]), Tail(items))

RECURSIVE InsertAll(_, _)
\* for header in items { dst.insert(header.0, header.1) }
InsertAll(dst, items) ==
    IF items = <<>>
    THEN dst
    ELSE InsertAll(HeaderInsert(dst, items[1][1], items[1][2]), Tail(items))

\* every header map that at most n appends of the given pairs can build
HeaderMaps(pairs, n) == {AppendAll(<<>>, s) : s \in SeqUpTo(pairs, n)}

-----------------------------------------------------------------------------
(* Results: Ok(v) or Err(e) of http_cache::Result *)

Ok(v) == [ok |-> TRUE, err |-> "none", val |-> <<v>>]

Err(e) == [ok |-> FALSE, err |-> e, val |-> <<>>]

-----------------------------------------------------------------------------
(* http::Uri and url::Url.  A URI is scheme, host, port and path; scheme   *)
(* "" is a URI with no scheme (origin-form), port 0 is no port, path "" is *)
(* no path.                                                                *)

HostLower == <<"h", "o", "s", "t">>

HostMixed == <<"H", "o", "s", "t">>

Uris ==
    { [scheme |-> "http", host |-> HostLower, port |-> 0, path |-> "/a"],
      [scheme |-> "http", host |-> HostMixed, port |-> 80, path |-> ""],
      [scheme |-> "", host |-> <<>>, port |-> 0, path |-> "/a"] }

\* Url::parse(uri.to_string()): needs a scheme; the host is lower-cased, the
\* scheme's default port is dropped and an empty path becomes "/"
UrlParse(uri) ==
    IF uri.scheme = ""
    THEN Err("url::ParseError")
    ELSE Ok([scheme |-> uri.scheme,
             host |-> ToLower(uri.host),
             port |-> IF uri.port = 80 THEN 0 ELSE uri.port,
             path |-> IF uri.path = "" THEN "/" ELSE uri.path])

\* Builder::uri(url.as_str()): the URI that the URL's text denotes
UriFromUrl(u) ==
    [scheme |-> u.scheme, host |-> u.host, port |-> u.port, path |-> u.path]

-----------------------------------------------------------------------------
(* Versions *)

HTTP_11 == "HTTP/1.1"

HTTP_2 == "HTTP/2.0"

\* a version of the transport with no counterpart in HttpVersion
HTTP_X == "HTTP/x"

RequestVersions == {HTTP_11, HTTP_2}

\* HttpVersion::try_from(http::Version)
TryIntoHttpVersion(v) ==
    CASE v = "HTTP/0.9" -> Ok("Http09")
      [] v = "HTTP/1.0" -> Ok("Http10")
      [] v = HTTP_11 -> Ok("Http11")
      [] v = HTTP_2 -> Ok("H2")
      [] v = "HTTP/3.0" -> Ok("H3")
      [] OTHER -> Err("BadVersion")

-----------------------------------------------------------------------------
(* Header values *)

\* http's is_visible_ascii
IsVisibleAscii(b) == (b >= 32 /\ b < 127) \/ b = 9

\* HeaderValue::to_str: the bytes as text, if every byte is visible ASCII
ToStr(v) ==
    IF \A i \in 1..Len(v) : IsVisibleAscii(v[i])
    THEN Ok(v)
    ELSE Err("ToStrError")

\* HeaderValue::from_str: any byte but a control character or DEL
HeaderValueFromStr(s) ==
    IF \A i \in 1..Len(s) : (s[i] >= 32 /\ s[i] # 127) \/ s[i] = 9
    THEN Ok(s)
    ELSE Err("InvalidHeaderValue")

-----------------------------------------------------------------------------
(* std HashMap<String, String> as a function on its keys *)

EmptyMap == [n \in {} |-> <<>>]

MapInsert(m, k, v) == [n \in DOMAIN m \cup {k} |-> IF n = k THEN v ELSE m[n]]

-----------------------------------------------------------------------------
(* HyperMiddleware: the methods that only read the live request *)

\* variant: the method compared without regard to case
is_method_get_head_ignoring_case(r) ==
    ToUpper(r.method) = GET \/ ToUpper(r.method) = HEAD

is_method_get_head(r) == r.method = GET \/ r.method = HEAD

url(r) == UrlParse(r.uri)

\* variant: the headers copied with insert instead of append
parts_inserting(r) ==
    LET u == url(r)
    IN  IF ~u.ok
        THEN Err(u.err)
        ELSE Ok([method |-> r.method,
                 uri |-> UriFromUrl(u.val[1]),
                 version |-> r.version,
                 headers |-> InsertAll(<<>>, HeaderIter(r.headers))])

\* Request::builder().uri(..).method(..).version(..).body(()) and the copy of
\* the headers; into_parts().0 is the head alone, it has no body
parts(r) ==
    LET u == url(r)
    IN  IF ~u.ok
        THEN Err(u.err)
        ELSE Ok([method |-> r.method,
                 uri |-> UriFromUrl(u.val[1]),
                 version |-> r.version,
                 headers |-> AppendAll(<<>>, HeaderIter(r.headers))])

\* variant: the token upper-cased
method_upper(r) == Ok(ToUpper(r.method))

\* Method::as_ref().to_string(): the token as the request carries it
method(r) == Ok(r.method)

\* HttpResponse::parts: a status and the headers of the stored response,
\* each value through HeaderValue::from_str
ResponseParts(response) ==
    IF \A n \in DOMAIN response.headers :
          HeaderValueFromStr(response.headers[n]).ok
    THEN Ok([status |-> response.status,
             version |-> response.version,
             headers |-> response.headers])
    ELSE Err("InvalidHeaderValue")

\* CachePolicy::new(&self.parts()?, &response.parts()?): the policy is opaque,
\* it is kept as the two heads it was computed from
policy(r, response) ==
    LET p == parts(r)
        q == ResponseParts(response)
    IN  IF ~p.ok THEN Err(p.err)
        ELSE IF ~q.ok THEN Err(q.err)
        ELSE Ok([request |-> p.val[1], response |-> q.val[1]])

-----------------------------------------------------------------------------
(* HyperMiddleware: the methods that change the live request *)

\* variant: the supplied headers appended instead of inserted
update_headers_appending(r, headers) ==
    [r EXCEPT !.headers = AppendAll(@, HeaderIter(headers))]

update_headers(r, headers) ==
    [r EXCEPT !.headers = InsertAll(@, HeaderIter(headers))]

\* variant: no-cache appended instead of inserted
force_no_cache_appending(r) ==
    LET v == HeaderValueFromStr(NoCacheBytes)
    IN  IF ~v.ok
        THEN Err(v.err)
        ELSE Ok([r EXCEPT !.headers = HeaderAppend(@, CACHE_CONTROL, v.val[1])])

force_no_cache(r) ==
    LET v == HeaderValueFromStr(NoCacheBytes)
    IN  IF ~v.ok
        THEN Err(v.err)
        ELSE Ok([r EXCEPT !.headers = HeaderInsert(@, CACHE_CONTROL, v.val[1])])

-----------------------------------------------------------------------------
(* remote_fetch *)

\* variant: the headers copied with insert instead of append
copied_req_inserting(r, u) ==
    [method |-> r.method,
     uri |-> UriFromUrl(u),
     version |-> r.version,
     body |-> r.body,
     headers |-> InsertAll(<<>>, HeaderIter(r.headers))]

\* lines 103-110: the request handed to the client
copied_req(r, u) ==
    [method |-> r.method,
     uri |-> UriFromUrl(u),
     version |-> r.version,
     body |-> r.body,
     headers |-> AppendAll(<<>>, HeaderIter(r.headers))]

RECURSIVE collect_headers_first_wins(_, _)
\* variant: a name keeps the first value seen (entry().or_insert)
collect_headers_first_wins(map, items) ==
    IF items = <<>>
    THEN Ok(map)
    ELSE LET t == ToStr(items[1][2])
         IN  IF ~t.ok
             THEN Err(t.err)
             ELSE collect_headers_first_wins(
                      IF items[1][1] \in DOMAIN map
                      THEN map
                      ELSE MapInsert(map, items[1][1], t.val[1]),
                      Tail(items))

RECURSIVE collect_headers_lossy(_, _)
\* variant: a value that is not text is skipped (if let Ok(v) = to_str())
collect_headers_lossy(map, items) ==
    IF items = <<>>
    THEN Ok(map)
    ELSE LET t == ToStr(items[1][2])
         IN  IF ~t.ok
             THEN collect_headers_lossy(map, Tail(items))
             ELSE collect_headers_lossy(MapInsert(map, items[1][1], t.val[1]),
                                        Tail(items))

RECURSIVE collect_headers(_, _)
\* lines 115-121: headers.insert(name, value.to_str()?) for each header
collect_headers(map, items) ==
    IF items = <<>>
    THEN Ok(map)
    ELSE LET t == ToStr(items[1][2])
         IN  IF ~t.ok
             THEN Err(t.err)
             ELSE collect_headers(MapInsert(map, items[1][1], t.val[1]),
                                  Tail(items))

\* lines 130-136: f holds the locals url, headers, status and version
http_response(f, body) ==
    LET v == TryIntoHttpVersion(f.version)
    IN  IF ~v.ok
        THEN Err(v.err)
        ELSE Ok([body |-> body,
                 headers |-> f.headers,
                 status |-> f.status,
                 url |-> f.url,
                 version |-> v.val[1]])

-----------------------------------------------------------------------------
(* Inputs *)

Hello == <<104, 105>>

Bodies == {<<>>, Hello}

RequestPairs ==
    { <<X_A, V1>>, <<X_A, V2>>, <<ACCEPT, TextPlain>>, <<CACHE_CONTROL, V1>> }

\* the headers update_headers is given
UpdatePairs == { <<X_A, V2>>, <<CACHE_CONTROL, V1>>, <<CACHE_CONTROL, V2>> }

\* the header sets update_headers is given
UpdateHeaders == HeaderMaps(UpdatePairs, MaxUpd)

\* the headers of the requests that are fetched
FetchPairs == { <<X_A, V1>>, <<X_A, V2>>, <<ACCEPT, TextPlain>> }

ResponsePairs ==
    { <<CONTENT_TYPE, TextPlain>>, <<CONTENT_TYPE, V1>>, <<X_B, Opaque>> }

\* what the client may answer; status, version and body each take every value,
\* not varied independently
ResponseShapes ==
    { <<200, HTTP_11, <<>> >>, <<404, HTTP_11, Hello>>, <<200, HTTP_X, Hello>> }

TransportResponses ==
    { [status |-> s[1], version |-> s[2], headers |-> h, body |-> s[3]] :
        s \in ResponseShapes, h \in HeaderMaps(ResponsePairs, MaxResHdr) }

\* stored responses handed to policy
StoredResponses ==
    [status : {200},
     version : {"Http11"},
     headers : { (CONTENT_TYPE :> TextPlain), (CONTENT_TYPE :> LineFeed) },
     body : {Hello}]

\* method, version and body of the requests: each takes every value it can,
\* the three are not varied independently
Shapes ==
    { <<GET, HTTP_11, <<>> >>, <<HEAD, HTTP_11, <<>> >>,
      <<POST, HTTP_2, Hello>>, <<ExtLower, HTTP_11, <<>> >>,
      <<ExtMixed, HTTP_2, Hello>> }

FetchShapes == { <<GET, HTTP_11, <<>> >>, <<POST, HTTP_2, Hello>> }

MakeRequest(shape, uri, headers) ==
    [method |-> shape[1],
     uri |-> uri,
     version |-> shape[2],
     headers |-> headers,
     body |-> shape[3]]

Requests ==
    { MakeRequest(s, u, h) :
        s \in Shapes, u \in Uris, h \in HeaderMaps(RequestPairs, MaxHdr) }

\* the requests that are fetched
FetchRequests ==
    { MakeRequest(s, u, h) :
        s \in FetchShapes, u \in Uris, h \in HeaderMaps(FetchPairs, MaxHdr) }

-----------------------------------------------------------------------------
(* State *)

Idle == [op |-> "none", done |-> TRUE, res |-> Ok("()")]

Returned(op, result) == [op |-> op, done |-> TRUE, res |-> result]

\* a result together with the argument of the call
ReturnedFor(op, arg, result) ==
    [op |-> op, done |-> TRUE, res |-> result, arg |-> arg]

Pending(op) == [op |-> op, done |-> FALSE, res |-> Err("pending")]

NoNet == [submits |-> 0, drains |-> 0]

Init ==
    /\ req \in Requests
    /\ pc = "idle"
    /\ frame = <<>>
    /\ sent = <<>>
    /\ net = NoNet
    /\ ret = Idle

Do_is_method_get_head ==
    /\ pc = "idle"
    /\ ret' = Returned("is_method_get_head", Ok(is_method_get_head(req)))
    /\ UNCHANGED <<req, pc, frame, sent, net>>

Do_url ==
    /\ pc = "idle"
    /\ ret' = Returned("url", url(req))
    /\ UNCHANGED <<req, pc, frame, sent, net>>

Do_method ==
    /\ pc = "idle"
    /\ ret' = Returned("method", method(req))
    /\ UNCHANGED <<req, pc, frame, sent, net>>

Do_parts ==
    /\ pc = "idle"
    /\ ret' = Returned("parts", parts(req))
    /\ UNCHANGED <<req, pc, frame, sent, net>>

Do_policy ==
    /\ pc = "idle"
    /\ \E response \in StoredResponses :
          ret' = ReturnedFor("policy", response, policy(req, response))
    /\ UNCHANGED <<req, pc, frame, sent, net>>

Do_update_headers ==
    /\ pc = "idle"
    /\ \E headers \in UpdateHeaders :
          req' = update_headers(req, headers)
    /\ ret' = Returned("update_headers", Ok("()"))
    /\ sent' = <<>>
    /\ UNCHANGED <<pc, frame, net>>

Do_force_no_cache ==
    /\ pc = "idle"
    /\ LET r == force_no_cache(req)
       IN  /\ req' = IF r.ok THEN r.val[1] ELSE req
           /\ ret' = Returned("force_no_cache",
                              IF r.ok THEN Ok("()") ELSE Err(r.err))
    /\ sent' = <<>>
    /\ UNCHANGED <<pc, frame, net>>

\* variant: the headers moved out of the live request into the outgoing one
remote_fetch_taking_headers ==
    /\ pc = "idle"
    /\ LET u == url(req)
       IN  IF ~u.ok
           THEN /\ ret' = Returned("remote_fetch", Err(u.err))
                /\ net' = NoNet
                /\ UNCHANGED <<req, pc, frame, sent>>
           ELSE /\ sent' = <<copied_req(req, u.val[1])>>
                /\ net' = [submits |-> 1, drains |-> 0]
                /\ frame' = <<[url |-> u.val[1]]>>
                /\ pc' = "request"
                /\ ret' = Pending("remote_fetch")
                /\ req' = [req EXCEPT !.headers = <<>>]

\* lines 101-111, up to the first await
remote_fetch ==
    /\ pc = "idle"
    /\ LET u == url(req)
       IN  IF ~u.ok
           THEN /\ ret' = Returned("remote_fetch", Err(u.err))
                /\ net' = NoNet
                /\ UNCHANGED <<req, pc, frame, sent>>
           ELSE /\ sent' = <<copied_req(req, u.val[1])>>
                /\ net' = [submits |-> 1, drains |-> 0]
                /\ frame' = <<[url |-> u.val[1]]>>
                /\ pc' = "request"
                /\ ret' = Pending("remote_fetch")
                /\ UNCHANGED req

\* lines 111-114: the client fails
client_request_err ==
    /\ pc = "request"
    /\ ret' = Returned("remote_fetch", Err("General"))
    /\ pc' = "idle"
    /\ frame' = <<>>
    /\ UNCHANGED <<req, sent, net>>

\* variant: the version converted before the body is read
client_request_ok_converting_first ==
    /\ pc = "request"
    /\ \E res \in TransportResponses :
          LET h == collect_headers(EmptyMap, HeaderIter(res.headers))
              v == TryIntoHttpVersion(res.version)
          IN  IF ~h.ok \/ ~v.ok
              THEN /\ ret' = Returned("remote_fetch",
                                      Err(IF ~h.ok THEN h.err ELSE v.err))
                   /\ pc' = "idle"
                   /\ frame' = <<>>
                   /\ UNCHANGED <<req, sent, net>>
              ELSE /\ frame' = <<[url |-> frame[1].url,
                                  headers |-> h.val[1],
                                  status |-> res.status,
                                  version |-> res.version,
                                  res |-> res]>>
                   /\ net' = [net EXCEPT !.drains = 1]
                   /\ pc' = "body"
                   /\ UNCHANGED <<req, sent, ret>>

\* lines 111-125: the client answers; up to the second await
client_request_ok ==
    /\ pc = "request"
    /\ \E res \in TransportResponses :
          LET h == collect_headers(EmptyMap, HeaderIter(res.headers))
          IN  IF ~h.ok
              THEN /\ ret' = Returned("remote_fetch", Err(h.err))
                   /\ pc' = "idle"
                   /\ frame' = <<>>
                   /\ UNCHANGED <<req, sent, net>>
              ELSE /\ frame' = <<[url |-> frame[1].url,
                                  headers |-> h.val[1],
                                  status |-> res.status,
                                  version |-> res.version,
                                  res |-> res]>>
                   /\ net' = [net EXCEPT !.drains = 1]
                   /\ pc' = "body"
                   /\ UNCHANGED <<req, sent, ret>>

\* lines 125-128: reading the body fails
to_bytes_err ==
    /\ pc = "body"
    /\ ret' = Returned("remote_fetch", Err("General"))
    /\ pc' = "idle"
    /\ frame' = <<>>
    /\ UNCHANGED <<req, sent, net>>

\* lines 125-136: the body is read
to_bytes_ok ==
    /\ pc = "body"
    /\ ret' = Returned("remote_fetch",
                       http_response(frame[1], frame[1].res.body))
    /\ pc' = "idle"
    /\ frame' = <<>>
    /\ UNCHANGED <<req, sent, net>>

\* the methods the caching engine calls between fetches
Next ==
    \/ Do_is_method_get_head
    \/ Do_url
    \/ Do_method
    \/ Do_parts
    \/ Do_policy
    \/ Do_update_headers
    \/ Do_force_no_cache

Spec == Init /\ [][Next]_vars

InitFetch ==
    /\ req \in FetchRequests
    /\ pc = "idle"
    /\ frame = <<>>
    /\ sent = <<>>
    /\ net = NoNet
    /\ ret = Idle

\* fetches, and the changes of the live request between them
NextFetch ==
    \/ Do_update_headers
    \/ Do_force_no_cache
    \/ remote_fetch
    \/ client_request_err
    \/ client_request_ok
    \/ to_bytes_err
    \/ to_bytes_ok

FetchSpec == InitFetch /\ [][NextFetch]_vars

-----------------------------------------------------------------------------
(* Vocabulary of the properties *)

Names(items) == {items[i][1] : i \in DOMAIN items}

Occurrences(items, n) == {i \in DOMAIN items : items[i][1] = n}

\* the value of the last (n, value) in items
LastValue(items, n) ==
    items[CHOOSE i \in Occurrences(items, n) :
              \A j \in Occurrences(items, n) : j <= i][2]

IsUpperCase(token) == token = ToUpper(token)

\* two URIs or URLs that name the same resource: same scheme, same host up to
\* case, same port once the default is filled in, same path once the empty
\* path is read as "/"
SameTarget(a, b) ==
    /\ a.scheme = b.scheme
    /\ ToLower(a.host) = ToLower(b.host)
    /\ (IF a.port = 0 THEN 80 ELSE a.port) = (IF b.port = 0 THEN 80 ELSE b.port)
    /\ (IF a.path = "" THEN "/" ELSE a.path) = (IF b.path = "" THEN "/" ELSE b.path)

HasDuplicates(m) == \E i \in 1..Len(m) : Len(m[i].values) >= 2

-----------------------------------------------------------------------------
(* Properties of the methods called between fetches (specification Spec) *)

\* C1: whatever update_headers and force_no_cache did before, the head that
\* parts() returns for a request with an absolute URL lists exactly the
\* headers the live request has when it is called (names, values, order,
\* duplicates), and it carries no body.
C1_PartsMirrorsLiveHeaders ==
    ret.op = "parts" =>
        /\ req.uri.scheme # "" => ret.res.ok
        /\ ret.res.ok =>
              /\ HeaderIter(ret.res.val[1].headers) = HeaderIter(req.headers)
              /\ "body" \notin DOMAIN ret.res.val[1]

\* parts() was called on a request that has a repeated header, a second name
\* and the cache-control that force_no_cache wrote
C1_Witness ==
    /\ ret.op = "parts"
    /\ ret.res.ok
    /\ HasDuplicates(req.headers)
    /\ \E i \in 1..Len(req.headers) :
          req.headers[i] = [name |-> CACHE_CONTROL, values |-> <<NoCacheBytes>>]
    /\ HeaderIter(ret.res.val[1].headers) = HeaderIter(req.headers)

\* C2: right after force_no_cache, whatever cache-control headers the request
\* had, parts() shows exactly one cache-control header and its value is
\* no-cache.
C2_ForcedNoCacheIsTheOnlyCacheControl ==
    ret.op = "force_no_cache" =>
        /\ ret.res.ok
        /\ parts(req).ok =>
              LET it == HeaderIter(parts(req).val[1].headers)
              IN  /\ Cardinality(Occurrences(it, "cache-control")) = 1
                  /\ \A i \in Occurrences(it, "cache-control") :
                        it[i][2] = <<110, 111, 45, 99, 97, 99, 104, 101>>

\* force_no_cache ran on a request that already had cache-control: the header
\* kept its place in front of another one
C2_Witness ==
    /\ ret.op = "force_no_cache"
    /\ parts(req).ok
    /\ Len(req.headers) >= 2
    /\ req.headers[1] = [name |-> CACHE_CONTROL, values |-> <<NoCacheBytes>>]

\* C3: for every live request and every header set H, update_headers(H)
\* leaves each name of H with exactly one occurrence, carrying the value H
\* gives it (the last one, should H repeat the name), whatever the name had
\* before; applying H again changes nothing.
\* (Stated of every value the live request takes: a request is new or just
\* changed when it takes a new value.)
C3_UpdateHeadersReplacesPerName ==
    ret.op \in {"none", "update_headers", "force_no_cache"} =>
        \A H \in UpdateHeaders :
            LET h == HeaderIter(H)
                r2 == update_headers(req, H)
                it == HeaderIter(r2.headers)
            IN  /\ \A n \in Names(h) :
                      /\ Cardinality(Occurrences(it, n)) = 1
                      /\ \A i \in Occurrences(it, n) :
                            it[i][2] = LastValue(h, n)
                /\ update_headers(r2, H) = r2

\* update_headers replaced a cache-control the request already had (it stays
\* in front of another header) by a value only update_headers supplies
C3_Witness ==
    /\ ret.op = "update_headers"
    /\ Len(req.headers) >= 2
    /\ req.headers[1] = [name |-> CACHE_CONTROL, values |-> <<V2>>]

\* C7: is_method_get_head answers true exactly for GET and HEAD; policy
\* succeeds for any method once the URL parses and the response has a valid
\* head.
C7_GetHeadOnlyAndPolicyAnyMethod ==
    /\ ret.op = "is_method_get_head" =>
          ret.res = Ok(req.method = <<"G", "E", "T">>
                       \/ req.method = <<"H", "E", "A", "D">>)
    /\ (ret.op = "policy" /\ UrlParse(req.uri).ok /\ ResponseParts(ret.arg).ok) =>
          ret.res.ok

\* policy succeeded on a POST request, for which is_method_get_head is false
C7_Witness ==
    /\ ret.op = "policy"
    /\ ret.res.ok
    /\ req.method = POST
    /\ ~is_method_get_head(req)

\* C10 as stated: method() returns an upper-case string for every request.
C10_MethodIsUpperCase ==
    ret.op = "method" => (ret.res.ok /\ IsUpperCase(ret.res.val[1]))

\* C10, amended: method() returns the method token exactly as the request
\* carries it; it is upper-case for the standard methods.
C10_MethodIsTokenAsCarried ==
    ret.op = "method" =>
        /\ ret.res.ok
        /\ ret.res.val[1] = req.method
        /\ req.method \in {GET, HEAD, POST} => IsUpperCase(ret.res.val[1])

\* method() was called on a request with a lower-case extension method
C10_Witness ==
    /\ ret.op = "method"
    /\ req.method = ExtLower
    /\ ret.res.val[1] = <<"g", "e", "t">>

-----------------------------------------------------------------------------
(* Properties of remote_fetch (specification FetchSpec).  `sent` is the    *)
(* request last handed to the client since the live request last changed;  *)
(* `net` counts what the call under way, or the last one, did on the       *)
(* network.                                                                *)

\* C4: the request handed to the client has the live request's method,
\* target, version and body, and its headers, repeated ones included, in the
\* live request's order.
C4_OutgoingCarriesLiveRequest ==
    sent # <<>> =>
        LET out == sent[1]
        IN  /\ out.method = req.method
            /\ SameTarget(out.uri, req.uri)
            /\ out.version = req.version
            /\ out.body = req.body
            /\ HeaderIter(out.headers) = HeaderIter(req.headers)

\* the client holds a request with X-A: 1, X-A: 2, Accept, in that order, whose
\* target was written with an upper-case host letter and the default port
C4_Witness ==
    /\ pc = "request"
    /\ sent # <<>>
    /\ HeaderIter(sent[1].headers)
         = << <<X_A, V1>>, <<X_A, V2>>, <<ACCEPT, TextPlain>> >>
    /\ req.uri.host = HostMixed
    /\ req.uri.port = 80

\* C5: a fetch that returns a response returns the status and the body of the
\* transport's response, the URL of the live request, and a header mapping
\* with every name of the transport's response once, mapped to the last
\* value the response has for it.
C5_ResponseIsTheTransportResponse ==
    [][ (pc = "body" /\ ret'.done /\ ret'.res.ok) =>
          LET res == frame[1].res
              r == ret'.res.val[1]
              it == HeaderIter(res.headers)
          IN  /\ r.status = res.status
              /\ r.body = res.body
              /\ SameTarget(r.url, req.uri)
              /\ DOMAIN r.headers = Names(it)
              /\ \A n \in Names(it) : r.headers[n] = LastValue(it, n) ]_vars

\* a fetch of a URI that needed normalising returned a response with a
\* status, a body and a content-type
C5_Witness ==
    /\ ret.op = "remote_fetch"
    /\ ret.done
    /\ ret.res.ok
    /\ ret.res.val[1].status = 404
    /\ ret.res.val[1].body = Hello
    /\ ret.res.val[1].headers = (CONTENT_TYPE :> V1)
    /\ req.uri.host = HostMixed
    /\ ret.res.val[1].url.host = HostLower

\* C6: a fetch submits its request once and never again; a failed submission
\* or a failed read of the body ends it with the General error, a header
\* value that is not text with the decoding error, a version that does not
\* convert with an error; an error comes with no response, and a response
\* that is returned has all the headers of the transport's response.
C6_AllOrNothingSingleShot ==
    [][ /\ net'.submits <= 1
        /\ pc # "idle" => net'.submits = net.submits
        /\ (pc = "request" /\ pc' = "idle") =>
              /\ ret'.done
              /\ ret'.res \in {Err("General"), Err("ToStrError")}
        /\ (pc = "request" /\ pc' = "body") =>
              LET it == HeaderIter(frame'[1].res.headers)
              IN  /\ \A i \in DOMAIN it : ToStr(it[i][2]).ok
                  /\ DOMAIN frame'[1].headers = Names(it)
        /\ (pc = "body" /\ pc' = "idle") =>
              /\ ret'.done
              /\ IF TryIntoHttpVersion(frame[1].res.version).ok
                 THEN ret'.res.ok \/ ret'.res = Err("General")
                 ELSE ~ret'.res.ok
              /\ ret'.res.ok =>
                    DOMAIN ret'.res.val[1].headers
                      = Names(HeaderIter(frame[1].res.headers))
        /\ (pc # "idle" /\ pc' # "body") => pc' = "idle"
        /\ (ret'.op = "remote_fetch" /\ ret'.done /\ ~ret'.res.ok) =>
              ret'.res.val = <<>> ]_vars

\* a fetch ended with the decoding error after one submission
C6_Witness ==
    /\ ret.op = "remote_fetch"
    /\ ret.done
    /\ ret.res = Err("ToStrError")
    /\ net = [submits |-> 1, drains |-> 0]
    /\ pc = "idle"

\* C8: no step of a fetch changes the live request, only update_headers and
\* force_no_cache do; a fetch that follows another with no change of the
\* live request in between hands the client the same request.
C8_FetchLeavesLiveRequest ==
    [][ /\ ret'.op = "remote_fetch" => req' = req
        /\ req' # req => ret'.op \in {"update_headers", "force_no_cache"}
        /\ (sent # <<>> /\ sent' # <<>>) => sent' = sent ]_vars

\* a fetch returned a response for a request that force_no_cache had changed,
\* and the request still has its headers
C8_Witness ==
    /\ ret.op = "remote_fetch"
    /\ ret.done
    /\ ret.res.ok
    /\ sent # <<>>
    /\ HasDuplicates(req.headers)
    /\ \E i \in 1..Len(req.headers) :
          req.headers[i] = [name |-> CACHE_CONTROL, values |-> <<NoCacheBytes>>]

\* C9 as stated: a fetch that ends with a malformed URL, an invalid header
\* value or a version that does not convert has submitted no request and
\* read no body.
C9_ParseErrorsBeforeNetwork ==
    (ret.op = "remote_fetch" /\ ret.done
       /\ ret.res.err \in {"url::ParseError", "ToStrError", "BadVersion"}) =>
        net = [submits |-> 0, drains |-> 0]

\* C9, amended: a fetch that ends with a malformed URL has submitted no
\* request and read no body; one that ends with a header value that is not
\* text has submitted its request and not begun to read the body; one that
\* ends with a version that does not convert has submitted its request and
\* read the body.
C9_ErrorsByStage ==
    (ret.op = "remote_fetch" /\ ret.done) =>
        /\ ret.res.err = "url::ParseError" => net = [submits |-> 0, drains |-> 0]
        /\ ret.res.err = "ToStrError" => net = [submits |-> 1, drains |-> 0]
        /\ ret.res.err = "BadVersion" => net = [submits |-> 1, drains |-> 1]

\* a fetch of a POST ended with a header value that is not text: the request
\* had been handed to the client, the body had not been asked for
C9_Witness ==
    /\ ret.op = "remote_fetch"
    /\ ret.done
    /\ ret.res.err = "ToStrError"
    /\ sent # <<>>
    /\ sent[1].method = POST
    /\ net.submits = 1
    /\ net.drains = 0

====
